---------------------------- MODULE Spec2Model ----------------------------
(***************************************************************************)
(* The catalog service of src/index.js: two MongoDB collections (products, *)
(* recommendations) behind Express routes, and the denormalised            *)
(* recommendationCount kept on each product.                               *)
(*                                                                         *)
(* src/index.js holds two variants of the server: an earlier one           *)
(* (lines 1-224, try/catch around the store calls, no input validation)    *)
(* and a hardened one (lines 226-405, ObjectId.isValid / userEmail /       *)
(* queryId checks, no try/catch).  A behaviour runs one of them.           *)
(*                                                                         *)
(* Every `await` on a store call is one atomic step of a request; the      *)
(* local computation before it belongs to the same step.                   *)
(***************************************************************************)
EXTENDS Integers, Sequences, FiniteSets, TLC

\* ------------------------------------------------------------------ bounds

\* Width of an ObjectId in hex digits (24 in the driver, scaled down).
IdLen == 2

\* How many ObjectIds the driver generates in one behaviour.
MaxGen == 3

\* Concurrent request-handling tasks.
MaxReq == 2

\* How many requests arrive in one behaviour.
MaxRequests == 4

Reqs == 1..MaxReq

\* ------------------------------------------------------------ BSON values

LowerHex == {"a", "b"}
UpperHex == {"A", "B"}
HexChars == LowerHex \cup UpperHex

\* A value that is either absent, a string or an ObjectId.
Undefined == [t |-> "undefined", v |-> <<>>]
Str(s)    == [t |-> "string", v |-> s]
Oid(s)    == [t |-> "objectid", v |-> s]

\* An absent string field (an email).
NoString == "undefined"

\* A recommendationCount: absent, a number, or a non-numeric JSON value.
NoCount    == [t |-> "undefined", n |-> 0]
Num(n)     == [t |-> "number", n |-> n]
NotANumber == [t |-> "string", n |-> 0]

\* The count of a product that is not in the collection.
NoProduct == [t |-> "missing", n |-> 0]

\* A string of IdLen characters: c, then d up to the end.
IdString(c, d) == [i \in 1..IdLen |-> IF i = 1 THEN c ELSE d]

ToLowerCase(c) == IF c = "A" THEN "a" ELSE IF c = "B" THEN "b" ELSE c

\* ObjectId.isValid(x): an ObjectId, or a string of IdLen hex digits.
isValid(x) ==
    \/ x.t = "objectid"
    \/ /\ x.t = "string"
       /\ Len(x.v) = IdLen
       /\ \A i \in 1..Len(x.v) : x.v[i] \in HexChars

\* new ObjectId(x) for a valid x: the hex string is read case-insensitively.
ObjectId(x) ==
    IF x.t = "objectid" THEN x
    ELSE Oid([i \in 1..Len(x.v) |-> ToLowerCase(x.v[i])])

\* JavaScript truthiness of a string-or-absent value: !x.
Falsy(x) == x.t = "undefined" \/ (x.t = "string" /\ x.v = <<>>)

\* The ObjectIds the driver generates, in order (never one twice).
GenSeq ==
    << Oid(IdString("a", "a")), Oid(IdString("a", "b")),
       Oid(IdString("b", "a")), Oid(IdString("b", "b")) >>

\* ------------------------------------------------------------------ inputs

\* req.params.id: hex strings in either case, a string that is not hex, and
\* one that is too short.
ParamIds ==
    { IdString("a", "a"), IdString("A", "b"), IdString("z", "a"),
      [i \in 1..(IdLen - 1) |-> "a"] }

Emails == {"a@x.com", "b@x.com"}

\* req.query.email
QueryEmails == Emails \cup {NoString, ""}

\* POST /products bodies.
ProductBodies ==
    { [userEmail |-> "a@x.com", recommendationCount |-> NoCount],
      [userEmail |-> "b@x.com", recommendationCount |-> Num(5)],
      [userEmail |-> NoString, recommendationCount |-> NoCount] }

\* PUT /products/:id bodies: the fields of $set.
ProductPatches ==
    { [userEmail |-> "b@x.com", recommendationCount |-> NoCount],
      [userEmail |-> NoString, recommendationCount |-> NotANumber] }

\* POST /recommendations bodies.
RecommendationBodies ==
    [queryId : {Str(s) : s \in ParamIds} \cup {Undefined},
     recommenderEmail : Emails]

\* ------------------------------------------------------------------- state

VARIABLES
    variant,    \* "earlier" (lines 1-224) or "hardened" (lines 226-405)
    products,   \* dataCollection: _id -> document
    recs,       \* recommendationCollection: _id -> document
    nextId,     \* how many ObjectIds the driver has generated
    arrived,    \* how many requests have arrived
    req,        \* the request-handling tasks and their local variables
    last        \* the latest request answered, and its response

vars == <<variant, products, recs, nextId, arrived, req, last>>

\* A task with no request.  The fields are a handler's local variables, the
\* collections it has queried (touched) and, as history, what the store held
\* when its request arrived (priorCount, priorRecs).
Idle ==
    [op |-> "idle", pc |-> "idle", id |-> Undefined, email |-> NoString,
     recommendation |-> Undefined, deleteResult |-> 0,
     queryIds |-> {}, touched |-> {},
     priorCount |-> NoProduct, priorRecs |-> {}]

\* No response yet.  A response carries the status (0: none was sent), the
\* result of the list route, and the request's id, email and history.
NoResponse ==
    [op |-> "none", status |-> 0, id |-> Undefined, email |-> NoString,
     recommendation |-> Undefined, result |-> {}, touched |-> {},
     priorCount |-> NoProduct, priorRecs |-> {}]

\* Task r is free and a request arrives for it.
Arrive(r) ==
    /\ req[r].pc = "idle"
    /\ arrived < MaxRequests
    /\ arrived' = arrived + 1

\* What the client sees when a handler without try/catch throws: Express 5
\* answers 500, Express 4 leaves the rejection unhandled and never answers.
Unhandled == {500, 0}

\* A thrown error: caught and answered 500 (earlier), or not caught (hardened).
Thrown == IF variant = "hardened" THEN Unhandled ELSE {500}

Init ==
    /\ variant \in {"earlier", "hardened"}
    /\ products = << >>
    /\ recs = << >>
    /\ nextId = 0
    /\ arrived = 0
    /\ req = [r \in Reqs |-> Idle]
    /\ last = NoResponse

\* res.status(status).json(...) of a handler that awaited nothing before.
Answer(r, op, id, status, touched) ==
    /\ last' = [NoResponse EXCEPT !.op = op, !.id = id, !.status = status,
                                  !.touched = touched]
    /\ req' = [req EXCEPT ![r] = Idle]

\* -------------------------------------------------------- store operations

Remove(coll, id) == [k \in DOMAIN coll \ {id} |-> coll[k]]

\* $set: the fields present in the patch overwrite the document's.
SetFields(doc, patch) ==
    [userEmail |->
        IF patch.userEmail = NoString THEN doc.userEmail ELSE patch.userEmail,
     recommendationCount |->
        IF patch.recommendationCount = NoCount THEN doc.recommendationCount
        ELSE patch.recommendationCount]

\* The document an upsert creates: the filter's _id and the $set fields.
EmptyDoc == [userEmail |-> NoString, recommendationCount |-> NoCount]

\* History, for the statements about a request's effect: the count of the
\* product a queryId names, as the request arrives.
CountOf(queryId) ==
    IF isValid(queryId) /\ ObjectId(queryId) \in DOMAIN products
    THEN products[ObjectId(queryId)].recommendationCount
    ELSE NoProduct

\* $inc fails on a field that holds a non-numeric value.
CanInc(doc) == doc.recommendationCount.t # "string"

\* IncCount with $set in the place of $inc.
IncCountSet(doc, amount) ==
    [doc EXCEPT !.recommendationCount = Num(amount)]

\* $inc: adds to a number, creates an absent field with the amount.
IncCount(doc, amount) ==
    [doc EXCEPT !.recommendationCount = Num(doc.recommendationCount.n + amount)]

\* updateOne({_id: id}, {$inc: {recommendationCount: amount}}): no upsert.
IncOne(coll, id, amount) ==
    [k \in DOMAIN coll |-> IF k = id THEN IncCount(coll[k], amount) ELSE coll[k]]

\* ------------------------------------------------------------ /products

\* GET /products/:id
GetProduct(r, id) ==
    /\ Arrive(r)
    /\ IF ~isValid(Str(id))
       THEN \* hardened: 400 before the store; earlier: new ObjectId throws
            \* inside the try block, before findOne is called
            Answer(r, "getProduct", Str(id),
                   IF variant = "hardened" THEN 400 ELSE 500, {})
       ELSE Answer(r, "getProduct", Str(id),
                   IF ObjectId(Str(id)) \in DOMAIN products THEN 200 ELSE 404,
                   {"products"})
    /\ UNCHANGED <<variant, products, recs, nextId>>

\* The document POST /products inserts.
NewProductDoc(body) ==
    IF variant = "hardened"
    THEN [body EXCEPT !.recommendationCount = Num(0)]
    ELSE body

\* POST /products
CreateProduct(r, body) ==
    /\ Arrive(r)
    /\ IF variant = "hardened" /\ body.userEmail \in {NoString, ""}
       THEN /\ Answer(r, "createProduct", Undefined, 400, {})
            /\ UNCHANGED <<products, nextId>>
       ELSE /\ nextId < MaxGen
            /\ nextId < Len(GenSeq)
            /\ nextId' = nextId + 1
            /\ LET id == GenSeq[nextId + 1] IN
               IF id \in DOMAIN products
               THEN \* insertOne fails: duplicate _id
                    /\ \E s \in Thrown :
                          Answer(r, "createProduct", id, s, {"products"})
                    /\ UNCHANGED products
               ELSE /\ products' = products @@ (id :> NewProductDoc(body))
                    /\ Answer(r, "createProduct", id, 200, {"products"})
    /\ UNCHANGED <<variant, recs>>

\* PUT /products/:id
UpdateProduct(r, id, patch) ==
    /\ Arrive(r)
    /\ IF ~isValid(Str(id))
       THEN \* earlier: new ObjectId(id) throws outside the try block
            /\ \E s \in (IF variant = "hardened" THEN {400} ELSE Unhandled) :
                  Answer(r, "updateProduct", Undefined, s, {})
            /\ UNCHANGED products
       ELSE LET oid == ObjectId(Str(id))
                doc == IF oid \in DOMAIN products THEN products[oid] ELSE EmptyDoc
            IN  /\ products' =
                      [k \in DOMAIN products \cup {oid} |->
                          IF k = oid THEN SetFields(doc, patch) ELSE products[k]]
                /\ Answer(r, "updateProduct", Undefined, 200, {"products"})
    /\ UNCHANGED <<variant, recs, nextId>>

\* DELETE /products/:id
DeleteProduct(r, id) ==
    /\ Arrive(r)
    /\ IF ~isValid(Str(id))
       THEN /\ Answer(r, "deleteProduct", Undefined,
                      IF variant = "hardened" THEN 400 ELSE 500, {})
            /\ UNCHANGED products
       ELSE /\ products' = Remove(products, ObjectId(Str(id)))
            /\ Answer(r, "deleteProduct", Undefined, 200, {"products"})
    /\ UNCHANGED <<variant, recs, nextId>>

\* ------------------------------------------------------ /recommendations

\* The document POST /recommendations inserts: the hardened variant stores
\* queryId as an ObjectId, the earlier one stores the body as sent.
NewRecommendationDoc(body) ==
    IF variant = "hardened"
    THEN [body EXCEPT !.queryId = ObjectId(body.queryId)]
    ELSE body

\* POST /recommendations, up to `await insertOne`.
CreateRecommendation(r, body) ==
    /\ Arrive(r)
    /\ IF variant = "hardened" /\ (Falsy(body.queryId) \/ ~isValid(body.queryId))
       THEN /\ last' = [NoResponse EXCEPT !.op = "createRecommendation",
                           !.id = body.queryId, !.status = 400]
            /\ UNCHANGED <<recs, nextId, req>>
       ELSE /\ nextId < MaxGen
            /\ nextId < Len(GenSeq)
            /\ nextId' = nextId + 1
            /\ recs' = recs @@ (GenSeq[nextId + 1] :> NewRecommendationDoc(body))
            /\ req' = [req EXCEPT ![r] =
                  [Idle EXCEPT !.op = "createRecommendation", !.pc = "inc",
                               !.id = body.queryId,
                               !.touched = {"recommendations"},
                               !.priorCount = CountOf(body.queryId),
                               !.priorRecs = DOMAIN recs]]
            /\ UNCHANGED last
    /\ UNCHANGED <<variant, products>>

\* The counter update both recommendation handlers end with:
\*   await dataCollection.updateOne({_id: new ObjectId(queryId)},
\*                                  {$inc: {recommendationCount: amount}})
\* and then the 200 response.  new ObjectId(undefined) generates an id;
\* new ObjectId of a malformed string throws.
UpdateCount(r, queryId, amount) ==
    LET answer(status) ==
            /\ last' = [NoResponse EXCEPT !.op = req[r].op, !.id = req[r].id,
                           !.status = status,
                           !.recommendation = req[r].recommendation,
                           !.priorCount = req[r].priorCount,
                           !.priorRecs = req[r].priorRecs,
                           !.touched = req[r].touched \cup
                               (IF status = 200 THEN {"products"} ELSE {})]
            /\ req' = [req EXCEPT ![r] = Idle]
        inc(target) ==
            IF target \in DOMAIN products /\ ~CanInc(products[target])
            THEN /\ \E s \in Thrown : answer(s)
                 /\ UNCHANGED products
            ELSE /\ products' = IncOne(products, target, amount)
                 /\ answer(200)
    IN  IF queryId.t = "undefined"
        THEN /\ nextId < MaxGen
             /\ nextId < Len(GenSeq)
             /\ nextId' = nextId + 1
             /\ inc(GenSeq[nextId + 1])
        ELSE /\ UNCHANGED nextId
             /\ IF ~isValid(queryId)
                THEN /\ \E s \in Thrown : answer(s)
                     /\ UNCHANGED products
                ELSE inc(ObjectId(queryId))

\* POST /recommendations, from `await updateOne` to the response.
IncrementCount(r) ==
    /\ req[r].op = "createRecommendation"
    /\ req[r].pc = "inc"
    /\ UpdateCount(r, req[r].id, 1)
    /\ UNCHANGED <<variant, recs, arrived>>

\* DELETE /recommendations/:id, up to `await findOne`.
DeleteRecommendation(r, id) ==
    /\ Arrive(r)
    /\ IF ~isValid(Str(id))
       THEN /\ last' = [NoResponse EXCEPT !.op = "deleteRecommendation",
                           !.id = Str(id),
                           !.status = IF variant = "hardened" THEN 400 ELSE 500]
            /\ UNCHANGED req
       ELSE IF ObjectId(Str(id)) \notin DOMAIN recs
       THEN /\ last' = [NoResponse EXCEPT !.op = "deleteRecommendation",
                           !.id = Str(id), !.status = 404,
                           !.touched = {"recommendations"}]
            /\ UNCHANGED req
       ELSE /\ req' = [req EXCEPT ![r] =
                  [Idle EXCEPT !.op = "deleteRecommendation", !.pc = "delete",
                               !.id = Str(id),
                               !.recommendation = recs[ObjectId(Str(id))].queryId,
                               !.touched = {"recommendations"},
                               !.priorCount = CountOf(recs[ObjectId(Str(id))].queryId),
                               !.priorRecs = DOMAIN recs]]
            /\ UNCHANGED last
    /\ UNCHANGED <<variant, products, recs, nextId>>

\* DeleteOne that reports the deletion and removes nothing.
DeleteOneKeep(coll, id) ==
    [coll |-> coll, deletedCount |-> IF id \in DOMAIN coll THEN 1 ELSE 0]

\* deleteOne({_id: id}): the collection left, and deletedCount.
DeleteOne(coll, id) ==
    [coll |-> Remove(coll, id), deletedCount |-> IF id \in DOMAIN coll THEN 1 ELSE 0]

\* DELETE /recommendations/:id, `await deleteOne`.
DeleteFound(r) ==
    /\ req[r].op = "deleteRecommendation"
    /\ req[r].pc = "delete"
    /\ LET d == DeleteOne(recs, ObjectId(req[r].id)) IN
          /\ recs' = d.coll
          /\ req' = [req EXCEPT ![r].pc = "dec",
                                ![r].deleteResult = d.deletedCount]
    /\ UNCHANGED <<variant, products, nextId, arrived, last>>

\* DELETE /recommendations/:id, from `await updateOne` to the response.
DecrementCount(r) ==
    /\ req[r].op = "deleteRecommendation"
    /\ req[r].pc = "dec"
    /\ UpdateCount(r, req[r].recommendation, -1)
    /\ UNCHANGED <<variant, recs, arrived>>

\* ------------------------------------------------ /myqueries/recommendations

\* ShortCircuit without the early return.
ShortCircuitNever(queryIds) == FALSE

\* if (queryIds.length === 0) return res.json([])
ShortCircuit(queryIds) == queryIds = {}

\* Match without the $ne condition.
MatchAnyRecommender(rec, queryIds, userEmail) == rec.queryId \in queryIds

\* $match: { queryId: {$in: queryIds}, recommenderEmail: {$ne: userEmail} }
Match(rec, queryIds, userEmail) ==
    /\ rec.queryId \in queryIds
    /\ rec.recommenderEmail # userEmail

\* $lookup from products, localField queryId, foreignField _id.
Lookup(rec) == {p \in DOMAIN products : p = rec.queryId}

\* The pipeline: $match, $lookup, $unwind (drops an empty join), $project.
Aggregate(queryIds, userEmail) ==
    { [_id |-> id, recommenderEmail |-> recs[id].recommenderEmail] :
        id \in {k \in DOMAIN recs :
                    /\ Match(recs[k], queryIds, userEmail)
                    /\ Lookup(recs[k]) # {}} }

\* GET /myqueries/recommendations, up to `await find(...).toArray()`.
ListIncoming(r, userEmail) ==
    /\ Arrive(r)
    /\ IF userEmail \in {NoString, ""}
       THEN /\ last' = [NoResponse EXCEPT !.op = "listIncoming",
                           !.email = userEmail, !.status = 400]
            /\ UNCHANGED req
       ELSE LET queryIds == {p \in DOMAIN products :
                                products[p].userEmail = userEmail}
            IN  IF ShortCircuit(queryIds)
                THEN /\ last' = [NoResponse EXCEPT !.op = "listIncoming",
                                    !.email = userEmail, !.status = 200,
                                    !.touched = {"products"}]
                     /\ UNCHANGED req
                ELSE /\ req' = [req EXCEPT ![r] =
                           [Idle EXCEPT !.op = "listIncoming", !.pc = "aggregate",
                                        !.email = userEmail,
                                        !.queryIds = queryIds,
                                        !.touched = {"products"}]]
                     /\ UNCHANGED last
    /\ UNCHANGED <<variant, products, recs, nextId>>

\* GET /myqueries/recommendations, `await aggregate(...).toArray()`.
RunAggregate(r) ==
    /\ req[r].op = "listIncoming"
    /\ req[r].pc = "aggregate"
    /\ last' = [NoResponse EXCEPT !.op = "listIncoming", !.status = 200,
                   !.email = req[r].email,
                   !.result = Aggregate(req[r].queryIds, req[r].email),
                   !.touched = req[r].touched \cup {"recommendations"}]
    /\ req' = [req EXCEPT ![r] = Idle]
    /\ UNCHANGED <<variant, products, recs, nextId, arrived>>

\* ----------------------------------------------------------- specifications

\* What task r can do.
Task(r) ==
    \/ \E id \in ParamIds : GetProduct(r, id)
    \/ \E body \in ProductBodies : CreateProduct(r, body)
    \/ \E id \in ParamIds, patch \in ProductPatches : UpdateProduct(r, id, patch)
    \/ \E id \in ParamIds : DeleteProduct(r, id)
    \/ \E body \in RecommendationBodies : CreateRecommendation(r, body)
    \/ IncrementCount(r)
    \/ \E id \in ParamIds : DeleteRecommendation(r, id)
    \/ DeleteFound(r)
    \/ DecrementCount(r)
    \/ \E userEmail \in QueryEmails : ListIncoming(r, userEmail)
    \/ RunAggregate(r)

\* Requests handled concurrently, interleaved at the awaits.
Next == \E r \in Reqs : Task(r)

Spec == Init /\ [][Next]_vars

\* One request at a time: each runs to its response before the next arrives.
NextSeq == Task(1)

SpecSeq == Init /\ [][NextSeq]_vars

\* ------------------------------------------------------------- properties

\* No task holds a request: the state is the one the latest response left.
Quiet == \A r \in Reqs : req[r].pc = "idle"

\* The recommendation document references product p: its queryId is p, or
\* is the hex string of p.
Refers(rec, p) ==
    \/ rec.queryId = p
    \/ /\ rec.queryId.t = "string"
       /\ isValid(rec.queryId)
       /\ ObjectId(rec.queryId) = p

\* The live recommendations that reference product p.
LiveRecommendations(p) == {k \in DOMAIN recs : Refers(recs[k], p)}

\* C1: whenever no createRecommendation or deleteRecommendation request is
\* between its two store writes, every stored product's recommendationCount
\* equals the number of live recommendations that reference it (an absent
\* field is read as 0).
C1_CounterInvariant ==
    (\A r \in Reqs : req[r].pc \notin {"inc", "dec"}) =>
        \A p \in DOMAIN products :
            LET n == Cardinality(LiveRecommendations(p)) IN
            \/ products[p].recommendationCount = Num(n)
            \/ n = 0 /\ products[p].recommendationCount = NoCount

\* C2: after createRecommendation(queryId = P) has answered 200 for a product
\* P that existed when the request arrived, with no other request
\* interleaved, P's recommendationCount is its value at arrival plus 1 (an
\* absent field counting as 0) and the recommendations are those of before
\* and exactly one new one, which references P.
C2_CreateIncrements ==
    ( /\ Quiet
      /\ last.op = "createRecommendation"
      /\ last.status = 200
      /\ last.priorCount # NoProduct ) =>
        LET P == ObjectId(last.id) IN
        /\ P \in DOMAIN products
        /\ products[P].recommendationCount = Num(last.priorCount.n + 1)
        /\ \E k \in DOMAIN recs \ last.priorRecs :
              /\ DOMAIN recs = last.priorRecs \cup {k}
              /\ Refers(recs[k], P)

\* A createRecommendation sent with the upper-case hex string of an existing
\* product's id, whose count was a number, has answered 200.
C2_Witness ==
    /\ Quiet
    /\ last.op = "createRecommendation"
    /\ last.status = 200
    /\ last.priorCount.t = "number"
    /\ last.id = Str(IdString("A", "b"))

\* C3: after deleteRecommendation(id) has answered 200, where the deleted
\* recommendation referenced a product P that existed when the request
\* arrived and no other request is interleaved, P's recommendationCount is
\* its value at arrival minus 1 and the recommendation no longer exists.
C3_DeleteDecrements ==
    ( /\ Quiet
      /\ last.op = "deleteRecommendation"
      /\ last.status = 200
      /\ last.priorCount # NoProduct ) =>
        LET P == ObjectId(last.recommendation) IN
        /\ P \in DOMAIN products
        /\ products[P].recommendationCount = Num(last.priorCount.n - 1)
        /\ ObjectId(last.id) \notin DOMAIN recs
        /\ DOMAIN recs = last.priorRecs \ {ObjectId(last.id)}

\* A deleteRecommendation of a recommendation on an existing product, whose
\* count was 1, has answered 200.
C3_Witness ==
    /\ Quiet
    /\ last.op = "deleteRecommendation"
    /\ last.status = 200
    /\ last.priorCount = Num(1)

\* C4: createProduct with userEmail set stores a product whose
\* recommendationCount is exactly 0, whatever the payload said.
C4_CreatedCountZero ==
    ( /\ Quiet
      /\ last.op = "createProduct"
      /\ last.status = 200
      /\ products[last.id].userEmail # NoString ) =>
        products[last.id].recommendationCount = Num(0)

\* C5: getProduct of an id that is not well-formed answers 400, and has not
\* queried the store.
C5_MalformedIdRejected ==
    (last.op = "getProduct" /\ ~isValid(last.id)) =>
        (last.status = 400 /\ last.touched = {})

\* C6: createRecommendation with a missing or malformed queryId answers 400
\* and changes neither collection.
C6_BadQueryIdRejected ==
    [][ \A body \in RecommendationBodies :
          ( /\ Falsy(body.queryId) \/ ~isValid(body.queryId)
            /\ CreateRecommendation(1, body) ) =>
              ( /\ last'.op = "createRecommendation"
                /\ last'.status = 400
                /\ UNCHANGED <<products, recs>> ) ]_vars

\* C7: the result of listIncomingRecommendationsForUser(email) holds no
\* recommendation whose recommenderEmail is email.
C7_NoSelfRecommendation ==
    last.op = "listIncoming" =>
        \A x \in last.result : x.recommenderEmail # last.email

\* A non-empty result, while a recommendation the caller wrote on a product
\* the caller owns is in the store.
C7_Witness ==
    /\ Quiet
    /\ last.op = "listIncoming"
    /\ last.result # {}
    /\ \E k \in DOMAIN recs :
          /\ recs[k].recommenderEmail = last.email
          /\ \E p \in DOMAIN products :
                Refers(recs[k], p) /\ products[p].userEmail = last.email

\* C8: when no product has userEmail equal to the caller's email,
\* listIncomingRecommendationsForUser(email) returns an empty sequence and
\* has not read the recommendations collection.
C8_NoProductsShortCircuit ==
    ( /\ Quiet
      /\ last.op = "listIncoming"
      /\ last.status = 200
      /\ \A p \in DOMAIN products : products[p].userEmail # last.email ) =>
        (last.result = {} /\ "recommendations" \notin last.touched)

\* The caller owns no product, and recommendations by others are stored.
C8_Witness ==
    /\ Quiet
    /\ last.op = "listIncoming"
    /\ last.status = 200
    /\ \A p \in DOMAIN products : products[p].userEmail # last.email
    /\ \E k \in DOMAIN recs : recs[k].recommenderEmail # last.email

\* C9: listIncomingRecommendationsForUser(email) returns exactly the
\* recommendations that reference an existing product owned by email and
\* whose recommenderEmail differs from email.
C9_ExactlyIncoming ==
    (Quiet /\ last.op = "listIncoming" /\ last.status = 200) =>
        {x._id : x \in last.result} =
            {k \in DOMAIN recs :
                /\ recs[k].recommenderEmail # last.email
                /\ \E p \in DOMAIN products :
                      Refers(recs[k], p) /\ products[p].userEmail = last.email}

\* C10: a deleteRecommendation request decrements a product's counter only
\* when its own deleteOne removed the recommendation.
C10_DecrementPairedWithRemoval ==
    [][ \A r \in Reqs :
          ( /\ req[r].op = "deleteRecommendation"
            /\ req[r].pc = "dec"
            /\ req'[r].pc = "idle"
            /\ products' # products ) =>
              req[r].deleteResult = 1 ]_vars

=============================================================================
